---- MODULE Spec2Model ----
(***************************************************************************)
(* Model of pymea's spike table (MEASpikeDict) and of its conductance      *)
(* artifact detection: cofiring_events, choose_keep_electrode and          *)
(* tag_conductance_spikes (src/pymea/pymea.py).                            *)
(*                                                                         *)
(* A spike table (pandas DataFrame) is a sequence of rows                  *)
(*   [electrode, time, amplitude, conductance];                            *)
(* the index label of a row is its position in the table (a default        *)
(* RangeIndex, as detect_spikes builds it with ignore_index=True).  Every  *)
(* sub-frame pandas derives from the table (a group, a concatenation, an   *)
(* event) keeps the index labels of its rows, so a sub-frame is modelled   *)
(* as the sequence of the index labels of its rows, in the frame's order.  *)
(*                                                                         *)
(* Times are doubles, in seconds.  The model takes them on a binary grid:  *)
(* a time is a whole number of ticks of 2^-14 s (16384 ticks a second),    *)
(* a value a double holds exactly, so that the differences np.diff and     *)
(* Series.diff compute are exact as well.  A separation (min_sep and the   *)
(* literals 0.0005, 0.0012 and 0.3 ms of the code) is counted in units of  *)
(* 1/SepUnit tick: s seconds is the integer s * SepUnit * 16384, so that   *)
(* 0.0012 s is 196608, about 19.66 ticks.  The double                      *)
(* of such a literal is nearer to it than to any whole number of ticks, so *)
(* a difference of d ticks compares with it as d * SepUnit compares with   *)
(* the integer.  Amplitudes are whole numbers, held as doubles; their mean *)
(* is rounded, and choose_keep_electrode's comparison follows the rounding *)
(* (see big_amplitudes).  sort_spikes is not modelled: it relabels         *)
(* self.spikes from analog data and nothing modelled calls it.             *)
(***************************************************************************)
EXTENDS Integers, Sequences, FiniteSets

VARIABLES df, spike_order, spike_dict, pc, min_sep, events, keep,
          conductance_locs, pending, last_call, likely

vars == <<df, spike_order, spike_dict, pc, min_sep, events, keep,
          conductance_locs, pending, last_call, likely>>

----------------------------------------------------------------------------
(* Bounds of the input spaces.                                             *)

MaxRows == 4
LongRows == 17
MaxTime == 4
MaxSep == 1
MaxDictRows == 4
MaxDictTime == 1
MaxKeepRows == 4
MaxZeros == 10
MaxReps == 31
Period == 100

(* The unit of separations: the number of units in a tick.                 *)

SepUnit == 10000

(* Program constants: min_sep=0.0005, the 0.0012 of lines 466 and 470 and  *)
(* the 0.3 ms of line 470 as separations (5, 12 and 3 times 16384), the 30 *)
(* of line 470.                                                            *)

DefaultMinSep == 81920
TagMinSep == 196608
MinCofiring == 30
JitterLimit == 49152

----------------------------------------------------------------------------
(* Electrode tags.  TLA+ strings are not ordered, so Python's string order *)
(* ('4' < 'n' < ..., hence "a4" < "analog1" < "b5" < "e8") is given by the *)
(* position of a tag in TagOrder.                                          *)

TagOrder == <<"a4", "analog1", "b5", "e8">>

TagRank(tag) == CHOOSE k \in 1..Len(TagOrder) : TagOrder[k] = tag

startswith_analog(tag) == tag \in {"analog1"}

Abs(x) == IF x < 0 THEN -x ELSE x

(* The outcome of a call that raises IndexError.                           *)
IndexError == "IndexError"

Range(s) == {s[i] : i \in 1..Len(s)}

(* The value of F at e; e is evaluated once, however often F uses it.     *)
Let(e, F(_)) == CHOOSE v \in {F(x) : x \in {e}} : TRUE

(* A function on 1..n as the sequence of its values (the same value, in   *)
(* the form of a tuple).                                                   *)
AsSeq(f) == f \o <<>>

----------------------------------------------------------------------------
(* Sorting.  A stable sort of the sequence s by the integer key k[x] of    *)
(* its elements: the element at position i goes to position 1 + the number *)
(* of elements that sort before it.                                        *)

StableSort(s, k) ==
    LET n == Len(s)
        key == AsSeq([i \in 1..n |-> k[s[i]]])
        before(i) == {j \in 1..n : \/ key[j] < key[i]
                                   \/ (key[j] = key[i] /\ j < i)}
        pos == AsSeq([i \in 1..n |-> 1 + Cardinality(before(i))])
        at == AsSeq([p \in 1..n |-> CHOOSE i \in 1..n : pos[i] = p])
    IN  AsSeq([p \in 1..n |-> s[at[p]]])

(* DataFrame.sort(column): the rows of the frame by ascending column.      *)
(* pandas sorts with numpy's default kind, quicksort, which is not stable: *)
(* it sorts a short frame by insertion, keeping rows of equal keys in      *)
(* frame order, and partitions a longer one, where the order of equal keys *)
(* is the implementation's.  The length from which it partitions depends   *)
(* on the numpy of the build: 17 rows for the versions before 1.12, 18 for *)
(* the later ones.  UnstableFrom is the least of them: the sort of a frame *)
(* of that length or more has a set of outcomes, every order of the rows   *)
(* by ascending key, the frame order of equal keys among them.             *)

UnstableFrom == 17

(* The orders of the first k rows of the sorted frame s that differ from s *)
(* only among rows of equal time.                                          *)
RECURSIVE tie_orders(_, _, _)
tie_orders(table, s, k) ==
    IF k = 0 THEN {<<>>}
    ELSE LET tied == {s[i] : i \in {i2 \in 1..Len(s) :
                         table[s[i2]].time = table[s[k]].time}}
         IN  UNION {{Append(p, x) : x \in tied \ Range(p)} :
                       p \in tie_orders(table, s, k - 1)}

(* dataframe.sort('time'): the set of its outcomes.                        *)
sort_time(table, frame) ==
    Let(StableSort(frame, [i \in Range(frame) |-> table[i].time]),
        LAMBDA s :
            IF \/ Len(s) < UnstableFrom
               \/ \A i \in 1..(Len(s) - 1) :
                      table[s[i]].time # table[s[i + 1]].time
            THEN {s}
            ELSE tie_orders(table, s, Len(s)))

(* event.sort('electrode'), of an event: its two rows are sorted by        *)
(* insertion, rows of the same electrode staying in the event's order.     *)
sort_electrode(table, frame) ==
    StableSort(frame, [i \in Range(frame) |-> TagRank(table[i].electrode)])

(* The frame of all the rows of a table.                                   *)

AllRows(table) == AsSeq([i \in 1..Len(table) |-> i])

----------------------------------------------------------------------------
(* cofiring_events(dataframe, min_sep)                                     *)

(* np.where(np.diff(times) > min_sep)[0] + 1 *)
SplitsGtMutant(table, sub_df, sep) ==
    LET gap(i) == (table[sub_df[i + 1]].time - table[sub_df[i]].time)
                      * SepUnit >= sep
    IN  SelectSeq(AsSeq([i \in 1..(Len(sub_df) - 1) |-> i]), gap)

SplitPoints(table, sub_df, sep) ==
    LET gap(i) == (table[sub_df[i + 1]].time - table[sub_df[i]].time)
                      * SepUnit > sep
    IN  SelectSeq(AsSeq([i \in 1..(Len(sub_df) - 1) |-> i]), gap)

(* The runs of length 2 between consecutive entries of splits.             *)
runs_of_two(sub_df, splits) ==
    LET two(i) == splits[i + 1] - splits[i] = 2
    IN  Let(SelectSeq(AsSeq([i \in 1..(Len(splits) - 1) |-> i]), two),
            LAMBDA starts :
                AsSeq([e \in 1..Len(starts) |->
                          <<sub_df[splits[starts[e]] + 1],
                            sub_df[splits[starts[e]] + 2]>>]))

(* The events of a frame that is sorted by time.                           *)
events_of(table, sub_df, sep) ==
    Let(<<0>> \o SplitPoints(table, sub_df, sep) \o <<Len(sub_df)>>,
        LAMBDA splits : runs_of_two(sub_df, splits))

(* The set of the outcomes of cofiring_events: one list of events for each *)
(* outcome of the sort.                                                    *)
cofiring_events(table, frame, sep) ==
    {events_of(table, sub_df, sep) : sub_df \in sort_time(table, frame)}

----------------------------------------------------------------------------
(* MEASpikeDict                                                            *)

TagsOf(table) == {table[i].electrode : i \in 1..Len(table)}

FirstIndex(table, tag) ==
    CHOOSE i \in 1..Len(table) :
        /\ table[i].electrode = tag
        /\ \A j \in 1..(i - 1) : table[j].electrode # tag

(* The group keys in the order of their first row in the table.            *)
FirstOccurrenceOrder(table) ==
    LET present(t) == t \in TagsOf(table)
        tags == SelectSeq(TagOrder, present)
    IN  StableSort(tags, [t \in Range(tags) |-> FirstIndex(table, t)])

(* The keys of spike_table.groupby('electrode'), in the order groupby      *)
(* yields them: groupby sorts the group keys (sort=True is its default).   *)
groupby_keys(table) ==
    LET present(t) == t \in TagsOf(table)
    IN  SelectSeq(TagOrder, present)

(* The group of a key: the rows of that electrode, in table order.         *)
groupby_group(table, tag) ==
    LET has(i) == table[i].electrode = tag
    IN  SelectSeq(AllRows(table), has)

(* __init__: spike_order and spike_dict of a new MEASpikeDict.             *)
init_spike_order(table) == groupby_keys(table)

init_spike_dict(table) ==
    [tag \in Range(groupby_keys(table)) |-> groupby_group(table, tag)]

(* __getitem__ with an int key (0-based, negative from the end); an index  *)
(* out of range raises IndexError, which __getitem__ does not catch.       *)
getitem_int(order, dict, key) ==
    IF key >= 0 /\ key < Len(order) THEN dict[order[key + 1]]
    ELSE IF key < 0 /\ key >= -Len(order) THEN dict[order[Len(order) + key + 1]]
    ELSE IndexError

(* __getitem__ with a tag: the group, or an empty frame on KeyError.       *)
getitem_tag(dict, key) ==
    IF key \in DOMAIN dict THEN dict[key] ELSE <<>>

(* __iter__, keys() and items() walk spike_order.                          *)
keys(order) == order

items(order, dict) ==
    AsSeq([i \in 1..Len(order) |-> <<order[i], dict[order[i]]>>])

(* The keys a caller sorts with: "None" is sort()'s default key, the size  *)
(* of the group; "time_max" is lambda d: d.time.max().                     *)
SortKeys == {"None", "time_max"}

MaxTimeOf(table, frame) ==
    CHOOSE t \in {table[i].time : i \in Range(frame)} :
        \A i \in Range(frame) : table[i].time <= t

KeyValue(table, frame, key) ==
    IF key = "None" THEN Len(frame) ELSE MaxTimeOf(table, frame)

(* list.sort(key=..., reverse=...) is stable, also when reversed.          *)
SortAscendingMutant(table, order, dict, key, reverse) ==
    StableSort(order, [t \in Range(order) |-> KeyValue(table, dict[t], key)])

sort(table, order, dict, key, reverse) ==
    StableSort(order, [t \in Range(order) |->
        IF reverse THEN -KeyValue(table, dict[t], key)
        ELSE KeyValue(table, dict[t], key)])

----------------------------------------------------------------------------
(* choose_keep_electrode(dataframe)                                        *)

SumAmp(table, frame, e) ==
    LET s[k \in 0..Len(frame)] ==
            IF k = 0 THEN 0
            ELSE s[k - 1] + (IF table[frame[k]].electrode = e
                             THEN table[frame[k]].amplitude ELSE 0)
    IN  s[Len(frame)]

Count(table, frame, e) ==
    Cardinality({k \in 1..Len(frame) : table[frame[k]].electrode = e})

FrameTags(table, frame) == {table[frame[k]].electrode : k \in 1..Len(frame)}

(* amplitudes > 0.8 * amplitudes.max() is a comparison of doubles.  The    *)
(* amplitude of an electrode is the double nearest to |sum| / n (the sum   *)
(* of whole amplitudes is exact), written RN(s / n) below.  For the sums   *)
(* and counts of a frame, two amplitudes that differ as fractions differ   *)
(* as doubles, in the same order, and RN(se / ne) > RN(0.8 * RN(sm / nm))  *)
(* is decided by the fractions unless se / ne is exactly 0.8 * sm / nm;    *)
(* then the roundings decide, and they are computed here on the grid of    *)
(* the doubles next to se / ne.                                            *)

RECURSIVE Pow2(_)
Pow2(k) == IF k = 0 THEN 1 ELSE 2 * Pow2(k - 1)

(* 2^k modulo n *)
RECURSIVE Pow2Mod(_, _)
Pow2Mod(k, n) == IF k = 0 THEN 1 % n ELSE (2 * Pow2Mod(k - 1, n)) % n

(* The a with 2^a <= s / n < 2^(a + 1), for s > 0. *)
FloorLog2(s, n) ==
    IF s >= n
    THEN CHOOSE a \in 0..24 : n * Pow2(a) <= s /\ s < n * Pow2(a + 1)
    ELSE -(CHOOSE c \in 1..24 : s * Pow2(c) >= n /\ s * Pow2(c - 1) < n)

(* Rounding to the nearest whole number, ties to the even one, of          *)
(* base + num / den with 0 <= num < den: 1 if it goes up, 0 if not.        *)
RoundsUp(num, den, base_odd) ==
    IF 2 * num < den THEN 0
    ELSE IF 2 * num > den THEN 1
    ELSE IF base_odd THEN 1 ELSE 0

(* se / ne = 0.8 * sm / nm > 0: RN(se / ne) > RN(0.8 * RN(sm / nm)).       *)
(* With j and k the exponents that put x = se / ne and y = sm / nm in      *)
(* [2^52, 2^53), the doubles near x are the whole numbers of x * 2^j.      *)
(* From q = floor(x * 2^j): RN(x) is q + rx, with fx / ne the fraction of  *)
(* x * 2^j; RN(y) is y + ry / (nm * 2^k); the double of 0.8 is             *)
(* 0.8 * (1 + 2^-54), so the product is, in the same units,                *)
(*   q + fx / ne + 0.8 * 2^(j - k) * ry / nm + x * 2^(j - 54)              *)
(* and a term of the sign of ry, smaller than 2^-54, that only matters     *)
(* when this sum is half-way between two whole numbers.                    *)
TieRoundsAbove(se, ne, sm, nm) ==
    LET ax == FloorLog2(se, ne)
        ay == FloorLog2(sm, nm)
        j == 52 - ax
        k == 52 - ay
        g == Pow2(j - k)
        fx == (se * Pow2Mod(j, ne)) % ne
        q_odd == (se * Pow2Mod(j, 2 * ne)) % (2 * ne) >= ne
        ty == (sm * Pow2Mod(k, nm)) % nm
        m_odd == (sm * Pow2Mod(k, 2 * nm)) % (2 * nm) >= nm
        ry == IF RoundsUp(ty, nm, m_odd) = 1 THEN nm - ty ELSE -ty
        rx == RoundsUp(fx, ne, q_odd)
        b == IF ax + 2 > 0 THEN ax + 2 ELSE 0
        wn == se * Pow2(IF ax + 2 < 0 THEN -ax - 2 ELSE 0)
        num == fx * 5 * nm * Pow2(b) + 4 * g * ry * ne * Pow2(b)
                   + wn * 5 * nm
        den == 5 * ne * nm * Pow2(b)
        h == num \div den
        rem == num - h * den
        h_odd == q_odd # (h % 2 = 1)
        rz == IF 2 * rem = den /\ ry # 0
              THEN (IF ry > 0 THEN h + 1 ELSE h)
              ELSE h + RoundsUp(rem, den, h_odd)
    IN  rx > rz

(* |sum e| / ne > 0.8 * |sum m| / nm, as the doubles compare.              *)
above_fraction(se, ne, sm, nm) ==
    \/ 5 * se * nm > 4 * sm * ne
    \/ /\ 5 * se * nm = 4 * sm * ne
       /\ se > 0
       /\ TieRoundsAbove(se, ne, sm, nm)

(* The comparison on the fractions alone, with >= for >.                   *)
BigGeMutant(table, frame) ==
    LET tags == FrameTags(table, frame)
        a == [e \in tags |-> Abs(SumAmp(table, frame, e))]
        n == [e \in tags |-> Count(table, frame, e)]
        ismax(m) == \A f \in tags : a[m] * n[f] >= a[f] * n[m]
    IN  {e \in tags : \E m \in tags :
            ismax(m) /\ 5 * a[e] * n[m] >= 4 * a[m] * n[e]}

(* amplitudes[amplitudes > 0.8 * amplitudes.max()], with m an electrode of *)
(* the largest amplitude.                                                  *)
big_amplitudes(table, frame) ==
    LET tags == FrameTags(table, frame)
        a == [e \in tags |-> Abs(SumAmp(table, frame, e))]
        n == [e \in tags |-> Count(table, frame, e)]
        ismax(m) == \A f \in tags : a[m] * n[f] >= a[f] * n[m]
    IN  {e \in tags : \E m \in tags :
            ismax(m) /\ above_fraction(a[e], n[e], a[m], n[m])}

choose_keep_electrode(table, frame) ==
    LET big == big_amplitudes(table, frame)
    IN  IF big = {} THEN IndexError
        ELSE CHOOSE e \in big : \A f \in big : TagRank(e) <= TagRank(f)

----------------------------------------------------------------------------
(* tag_conductance_spikes(df)                                              *)

(* tags = [tag for tag in spikes if not tag.startswith('analog')] *)
nonanalog_tags(order) ==
    LET electrode(t) == ~startswith_analog(t)
    IN  SelectSeq(order, electrode)

(* itertools.combinations(tags, 2): the pairs <<tags[i], tags[j]>>, i < j, *)
(* in lexicographic order of <<i, j>>.                                     *)
combinations2(tags) ==
    LET n == Len(tags)
        idx == {<<i, j>> \in (1..n) \X (1..n) : i < j}
        before(p) == {q \in idx : q[1] < p[1] \/ (q[1] = p[1] /\ q[2] < p[2])}
    IN  [k \in 1..Cardinality(idx) |->
            LET p == CHOOSE q \in idx : Cardinality(before(q)) = k - 1
            IN  <<tags[p[1]], tags[p[2]]>>]

(* sub_df = pd.concat([spikes[e1], spikes[e2]]) *)
pair_sub_df(dict, e1, e2) == getitem_tag(dict, e1) \o getitem_tag(dict, e2)

(* pd.concat([event.sort('electrode') for event in cofiring_events(...)]): *)
(* the rows of the events, two per event.  With no event pd.concat raises  *)
(* ValueError, which the try block turns into `continue`; the empty frame  *)
(* stands for that outcome.                                                *)
concat_events(table, evs) ==
    AsSeq([k \in 1..(2 * Len(evs)) |->
              sort_electrode(table, evs[(k + 1) \div 2])[2 - (k % 2)]])

(* The set of the outcomes, one for each outcome of cofiring_events.       *)
pair_cofiring(table, dict, e1, e2) ==
    {concat_events(table, evs) :
        evs \in cofiring_events(table, pair_sub_df(dict, e1, e2), TagMinSep)}

(* diffs = cofiring.time.diff(); diffs[diffs < 0.0012]: the positions k of *)
(* the frame whose difference to the row before is below the threshold     *)
(* (the first row has no difference: NaN < 0.0012 is False).               *)
small_diffs(table, cofiring) ==
    {k \in 2..Len(cofiring) :
        (table[cofiring[k]].time - table[cofiring[k - 1]].time) * SepUnit
            < TagMinSep}

(* v / m < (a / b)^2 for v >= 0 and m > 0: the whole parts of the two      *)
(* sides are compared, then the remainders, so that no product leaves the  *)
(* 32-bit integers.                                                        *)
BelowSquare(v, m, a, b) ==
    LET q == v \div m
        r == v % m
        cq == (a * a) \div (b * b)
        cr == (a * a) % (b * b)
    IN  \/ q < cq
        \/ q = cq /\ r * (b * b) < cr * m

(* 1000 * diffs[diffs < 0.0012].std() < 0.3: the sample standard deviation *)
(* (ddof = 1) of the n selected differences is below 0.0003 s, that is     *)
(* (n * sum(d^2) - sum(d)^2) / (n * (n - 1)) < (JitterLimit / SepUnit)^2   *)
(* in ticks, the fraction reduced by 16; with n < 2 the deviation is NaN   *)
(* and the comparison False.                                               *)
low_jitter(table, cofiring) ==
    LET sel == small_diffs(table, cofiring)
        d(k) == table[cofiring[k]].time - table[cofiring[k - 1]].time
        n == Cardinality(sel)
        s1[k \in 1..Len(cofiring)] ==
            IF k = 1 THEN 0 ELSE s1[k - 1] + (IF k \in sel THEN d(k) ELSE 0)
        s2[k \in 1..Len(cofiring)] ==
            IF k = 1 THEN 0
            ELSE s2[k - 1] + (IF k \in sel THEN d(k) * d(k) ELSE 0)
        S1 == s1[Len(cofiring)]
        S2 == s2[Len(cofiring)]
    IN  /\ n >= 2
        /\ BelowSquare(n * S2 - S1 * S1, n * (n - 1),
                       JitterLimit \div 16, SepUnit \div 16)

(* len(cofiring) > 30 and 1000*diffs[diffs < 0.0012].std() < 0.3 *)
is_conductance(table, cofiring) ==
    /\ Len(cofiring) > MinCofiring
    /\ low_jitter(table, cofiring)

(* The rows of a likely conductance sequence that are not of e_keep.       *)
KeptRowsMutant(table, cofiring, e_keep) ==
    LET same(i) == table[i].electrode = e_keep
    IN  SelectSeq(cofiring, same)

non_kept(table, cofiring, e_keep) ==
    LET other(i) == table[i].electrode # e_keep
    IN  SelectSeq(cofiring, other)

(* conductance_locs.append(i) for each of the rows                         *)
ResetLocsMutant(locs, rows) == rows

append_locs(locs, rows) == locs \o rows

(* The loop body for the pair <<e1, e2>> after the try block, from the     *)
(* accumulator acc = [locs, likely, raised]: likely collects the pairs     *)
(* that took the `likely conductance sequence` branch, raised tells that   *)
(* an exception left the loop (choose_keep_electrode is called outside the *)
(* try block).                                                             *)
pair_body(table, acc, e1, e2, cofiring) ==
    IF cofiring = <<>> THEN acc
    ELSE IF ~is_conductance(table, cofiring) THEN acc
    ELSE Let(choose_keep_electrode(table, cofiring), LAMBDA e_keep :
            IF e_keep = IndexError
            THEN [acc EXCEPT !.likely = @ \cup {<<e1, e2>>},
                             !.raised = TRUE]
            ELSE [acc EXCEPT !.likely = @ \cup {<<e1, e2>>},
                             !.locs = append_locs(@,
                                 non_kept(table, cofiring, e_keep))])

(* One pass of the loop body for the pair <<e1, e2>>: the set of its       *)
(* outcomes.                                                               *)
pair_step(table, dict, acc, e1, e2) ==
    {pair_body(table, acc, e1, e2, cofiring) :
        cofiring \in pair_cofiring(table, dict, e1, e2)}

NoLocs == [locs |-> <<>>, likely |-> {}, raised |-> FALSE]

(* The rows the table hands to MEASpikeDict: all of them, whatever their   *)
(* conductance flag.                                                       *)
UnflaggedRowsMutant(table) ==
    LET clean(i) == ~table[i].conductance
    IN  SelectSeq(AllRows(table), clean)

spike_rows(table) == AllRows(table)

(* spikes = MEASpikeDict(df): the group order and the groups, each group   *)
(* with the index labels of its rows.                                      *)
spikes_of(table) ==
    Let(spike_rows(table), LAMBDA rows :
        Let(AsSeq([k \in 1..Len(rows) |-> table[rows[k]]]), LAMBDA view :
            Let(init_spike_dict(view), LAMBDA grouped :
                [order |-> init_spike_order(view),
                 dict |-> [t \in DOMAIN grouped |->
                             AsSeq([k \in 1..Len(grouped[t]) |->
                                       rows[grouped[t][k]]])]])))

(* The loop over the first k pairs, in the order of combinations: the set  *)
(* of its outcomes.                                                        *)
RECURSIVE pairs_loop(_, _, _, _)
pairs_loop(table, dict, pairs, k) ==
    IF k = 0 THEN {NoLocs}
    ELSE UNION {IF acc.raised THEN {acc}
                ELSE pair_step(table, dict, acc, pairs[k][1], pairs[k][2]) :
                   acc \in pairs_loop(table, dict, pairs, k - 1)}

tag_loop(table) ==
    Let(spikes_of(table), LAMBDA spikes :
        Let(combinations2(nonanalog_tags(spikes.order)), LAMBDA pairs :
            pairs_loop(table, spikes.dict, pairs, Len(pairs))))

(* df['conductance'] = False; df.ix[conductance_locs, 'conductance'] = True *)
write_flags(table, locs) ==
    AsSeq([i \in 1..Len(table) |->
              [table[i] EXCEPT !.conductance = (i \in Range(locs))]])

----------------------------------------------------------------------------
(* Input spaces.                                                           *)

RowsOver(E, T, A) ==
    [electrode : E, time : T, amplitude : A, conductance : {FALSE}]

TablesUpTo(n, R) == UNION {[1..k -> R] : k \in 0..n}

NoDict == [t \in {} |-> <<>>]

NoCall == <<"none", FALSE>>

----------------------------------------------------------------------------
(* Specification of cofiring_events as a function of its inputs.           *)

(* The times of the tables: the first ticks and one tick further than     *)
(* 0.0005 s from them; the separations: whole ticks and the default.       *)
LateTime == 13

CofireTimes == (0..MaxTime) \cup {LateTime}

CofireSeps == {k * SepUnit : k \in 0..MaxSep} \cup {DefaultMinSep}

(* Longer tables, of a length at which the sort may not be stable: n       *)
(* spikes in descending order of time, two at each time (one at the first  *)
(* when n is odd), the times gap ticks apart, but for the last two spikes, *)
(* which are one tick apart.                                               *)
LongTable(n, gap) ==
    AsSeq([r \in 1..n |->
        [electrode |-> IF r % 2 = 1 THEN "b5" ELSE "a4",
         time |-> ((n - r) \div 2) * gap + (IF r = n - 1 THEN 1 ELSE 0),
         amplitude |-> -1,
         conductance |-> FALSE]])

LongGaps == {1, 3}

LongTables == {LongTable(LongRows, gap) : gap \in LongGaps}

InitCofire ==
    /\ df \in TablesUpTo(MaxRows, RowsOver({"a4", "b5"}, CofireTimes, {-1}))
               \cup LongTables
    /\ min_sep \in CofireSeps
    /\ pc = "input"
    /\ events = <<>>
    /\ spike_order = <<>>
    /\ spike_dict = NoDict
    /\ keep = ""
    /\ conductance_locs = <<>>
    /\ pending = {}
    /\ last_call = NoCall
    /\ likely = {}

Cofire ==
    /\ pc = "input"
    /\ events' \in cofiring_events(df, AllRows(df), min_sep)
    /\ pc' = "cofired"
    /\ UNCHANGED <<df, spike_order, spike_dict, min_sep, keep,
                   conductance_locs, pending, last_call, likely>>

NextCofire == Cofire

SpecCofire == InitCofire /\ [][NextCofire]_vars

Time(i) == df[i].time

(* The rows i and j are within min_sep of each other and every other row   *)
(* of the table is more than min_sep away from both: {i, j} is a maximal   *)
(* run of the time-sorted table.                                           *)
IsolatedPair(i, j) ==
    /\ i # j
    /\ Abs(Time(i) - Time(j)) * SepUnit <= min_sep
    /\ \A k \in (1..Len(df)) \ {i, j} :
          \/ /\ (Time(i) - Time(k)) * SepUnit > min_sep
             /\ (Time(j) - Time(k)) * SepUnit > min_sep
          \/ /\ (Time(k) - Time(i)) * SepUnit > min_sep
             /\ (Time(k) - Time(j)) * SepUnit > min_sep

(* C2: cofiring_events returns exactly the maximal runs of length 2 of the *)
(* time-sorted spikes, where a run is split only by a gap greater than     *)
(* min_sep: every event is an isolated pair in time order, every isolated  *)
(* pair is an event, the events are in time order of their first member    *)
(* and no spike is in two events.                                          *)
C2_ExactlyRunsOfTwo ==
    pc = "cofired" =>
        /\ \A e \in 1..Len(events) :
              /\ Len(events[e]) = 2
              /\ Time(events[e][1]) <= Time(events[e][2])
              /\ IsolatedPair(events[e][1], events[e][2])
        /\ \A i, j \in 1..Len(df) :
              IsolatedPair(i, j) => \E e \in 1..Len(events) :
                                        Range(events[e]) = {i, j}
        /\ \A e, f \in 1..Len(events) :
              e < f => /\ Time(events[e][1]) < Time(events[f][1])
                       /\ Range(events[e]) \cap Range(events[f]) = {}

(* From a table that is not sorted by time and is long enough for the sort *)
(* not to be stable, the events returned include one with a gap equal to   *)
(* min_sep > 0 and one of two spikes of the same time, in the order        *)
(* opposite to the table's.                                                *)
C2_Witness ==
    /\ pc = "cofired"
    /\ Len(df) >= UnstableFrom
    /\ min_sep > 0
    /\ \E i \in 1..(Len(df) - 1) : Time(i) > Time(i + 1)
    /\ \E e \in 1..Len(events) :
          (Time(events[e][2]) - Time(events[e][1])) * SepUnit = min_sep
    /\ \E e \in 1..Len(events) :
          /\ Time(events[e][1]) = Time(events[e][2])
          /\ events[e][1] > events[e][2]

(* C3: every event returned for a table of two electrodes has two spikes,  *)
(* one of each electrode, no more than min_sep apart.                      *)
C3_OnePerElectrode ==
    pc = "cofired" =>
        \A e \in 1..Len(events) :
            /\ Len(events[e]) = 2
            /\ df[events[e][1]].electrode # df[events[e][2]].electrode
            /\ Abs(Time(events[e][1]) - Time(events[e][2])) * SepUnit <= min_sep

----------------------------------------------------------------------------
(* Specification of MEASpikeDict: construction from a table, then sort     *)
(* calls.                                                                  *)

InitDict ==
    /\ df \in TablesUpTo(MaxDictRows,
                         RowsOver({"a4", "b5", "e8"}, 0..MaxDictTime, {-1}))
    /\ spike_order = <<>>
    /\ spike_dict = NoDict
    /\ pc = "table"
    /\ last_call = NoCall
    /\ min_sep = DefaultMinSep
    /\ events = <<>>
    /\ keep = ""
    /\ conductance_locs = <<>>
    /\ pending = {}
    /\ likely = {}

(* spikes = MEASpikeDict(df) *)
Construct ==
    /\ pc = "table"
    /\ spike_order' = init_spike_order(df)
    /\ spike_dict' = init_spike_dict(df)
    /\ pc' = "constructed"
    /\ UNCHANGED <<df, min_sep, events, keep, conductance_locs, pending,
                   last_call, likely>>

(* spikes.sort(key, reverse) *)
Sort(key, reverse) ==
    /\ pc \in {"constructed", "sorted"}
    /\ spike_order' = sort(df, spike_order, spike_dict, key, reverse)
    /\ last_call' = <<key, reverse>>
    /\ pc' = "sorted"
    /\ UNCHANGED <<df, spike_dict, min_sep, events, keep, conductance_locs,
                   pending, likely>>

NextDict ==
    \/ Construct
    \/ \E key \in SortKeys, reverse \in BOOLEAN : Sort(key, reverse)

SpecDict == InitDict /\ [][NextDict]_vars

(* The rows of an electrode, in table order, stated on the table.          *)
IsGroupOf(frame, tag) ==
    /\ Range(frame) = {i \in 1..Len(df) : df[i].electrode = tag}
    /\ \A i, j \in 1..Len(frame) : i < j => frame[i] < frame[j]

Partitioned ==
    /\ DOMAIN spike_dict = TagsOf(df)
    /\ \A tag \in DOMAIN spike_dict : IsGroupOf(spike_dict[tag], tag)
    /\ \A i \in 1..Len(df) :
          Cardinality({tag \in DOMAIN spike_dict :
                          i \in Range(spike_dict[tag])}) = 1

OrderViews ==
    /\ Range(spike_order) = TagsOf(df)
    /\ Len(spike_order) = Cardinality(TagsOf(df))
    /\ keys(spike_order) = spike_order
    /\ \A i \in 1..Len(spike_order) :
          /\ getitem_int(spike_order, spike_dict, i - 1)
                = spike_dict[spike_order[i]]
          /\ items(spike_order, spike_dict)[i]
                = <<spike_order[i], spike_dict[spike_order[i]]>>

(* C8 as stated: a new MEASpikeDict partitions the table by electrode,     *)
(* each group in row order, and its group order is the order of first      *)
(* occurrence of the tags in the table.                                    *)
C8_FirstOccurrenceOrder ==
    pc = "constructed" =>
        /\ Partitioned
        /\ OrderViews
        /\ spike_order = FirstOccurrenceOrder(df)

(* C8 amended: a new MEASpikeDict partitions the table by electrode, each  *)
(* group in row order, and its group order (iteration, keys(), items(),    *)
(* integer indexing) is the ascending order of the tags.                   *)
C8_SortedTagOrder ==
    pc = "constructed" =>
        /\ Partitioned
        /\ OrderViews
        /\ \A i, j \in 1..Len(spike_order) :
              i < j => TagRank(spike_order[i]) < TagRank(spike_order[j])

(* A new dict of a table whose tags first occur in descending order.       *)
C8_Witness ==
    /\ pc = "constructed"
    /\ Len(spike_order) = 3
    /\ FirstOccurrenceOrder(df) = <<"e8", "b5", "a4">>
    /\ Len(df) > 3

(* A step of a constructed dict leaves the table and the groups alone and  *)
(* permutes the group order.                                               *)
SortKeepsGroups ==
    pc \in {"constructed", "sorted"} =>
        /\ df' = df
        /\ spike_dict' = spike_dict
        /\ Range(spike_order') = Range(spike_order)
        /\ Len(spike_order') = Len(spike_order)

(* C9: sort calls permute the group order and change neither the table nor *)
(* the groups; lookup by tag and by position follow; after sort() the      *)
(* groups are in descending order of size.                                 *)
C9_SortFrame ==
    /\ [](pc \in {"constructed", "sorted"} =>
          /\ Partitioned
          /\ OrderViews
          /\ \A tag \in TagsOf(df) :
                IsGroupOf(getitem_tag(spike_dict, tag), tag)
          /\ last_call = <<"None", TRUE>> =>
                \A i, j \in 1..Len(spike_order) :
                    i < j => Len(spike_dict[spike_order[i]])
                                >= Len(spike_dict[spike_order[j]]))
    /\ [][SortKeepsGroups]_vars

(* sort() has put a larger group in front of a group of a smaller tag,     *)
(* after a sort by another key.                                            *)
C9_Witness ==
    /\ pc = "sorted"
    /\ last_call = <<"None", TRUE>>
    /\ Len(spike_order) = 3
    /\ spike_order # init_spike_order(df)
    /\ Len(spike_dict[spike_order[1]]) > Len(spike_dict[spike_order[3]])

----------------------------------------------------------------------------
(* Specification of choose_keep_electrode as a function of its input, a    *)
(* frame of at least one row.                                              *)

KeepAmps == {-5, -4, 0, 4}

(* Longer frames: three spikes of a4 with amplitude -4 and three of b5     *)
(* with -5, each followed by z spikes of amplitude 0, so that the mean of  *)
(* a4 is exactly 0.8 times that of b5 and neither mean is a double unless  *)
(* 3 + z is a power of two.                                                *)
KeepFrame(z) ==
    AsSeq([r \in 1..(2 * (3 + z)) |->
        [electrode |-> IF r <= 3 + z THEN "a4" ELSE "b5",
         time |-> 0,
         amplitude |-> IF r <= 3 THEN -4
                       ELSE IF r > 3 + z /\ r <= 6 + z THEN -5 ELSE 0,
         conductance |-> FALSE]])

LongFrames == {KeepFrame(z) : z \in 0..MaxZeros}

InitKeep ==
    /\ df \in TablesUpTo(MaxKeepRows,
                         RowsOver({"a4", "b5", "e8"}, {0}, KeepAmps))
               \cup LongFrames
    /\ df # <<>>
    /\ pc = "input"
    /\ keep = ""
    /\ spike_order = <<>>
    /\ spike_dict = NoDict
    /\ last_call = NoCall
    /\ min_sep = DefaultMinSep
    /\ events = <<>>
    /\ conductance_locs = <<>>
    /\ pending = {}
    /\ likely = {}

ChooseKeep ==
    /\ pc = "input"
    /\ keep' = choose_keep_electrode(df, AllRows(df))
    /\ pc' = "chosen"
    /\ UNCHANGED <<df, spike_order, spike_dict, min_sep, events,
                   conductance_locs, pending, last_call, likely>>

NextKeep == ChooseKeep

SpecKeep == InitKeep /\ [][NextKeep]_vars

SumAbsAmp(e) ==
    LET s[k \in 0..Len(df)] ==
            IF k = 0 THEN 0
            ELSE s[k - 1] + (IF df[k].electrode = e
                             THEN Abs(df[k].amplitude) ELSE 0)
    IN  s[Len(df)]

NumRows(e) == Cardinality({k \in 1..Len(df) : df[k].electrode = e})

AbsSum(e) == Abs(SumAmp(df, AllRows(df), e))

(* The electrodes whose mean of absolute amplitudes is more than 0.8 times *)
(* the largest such mean.                                                  *)
MeanAbsCandidates ==
    {e \in TagsOf(df) : \A m \in TagsOf(df) :
        5 * SumAbsAmp(e) * NumRows(m) > 4 * SumAbsAmp(m) * NumRows(e)}

(* C5 as stated: the tag returned is the alphabetically first of the       *)
(* electrodes whose mean absolute amplitude is above 0.8 times the largest *)
(* such mean, and is an electrode of the input.                            *)
C5_MeanOfAbsolute ==
    pc = "chosen" /\ keep # IndexError =>
        /\ keep \in TagsOf(df)
        /\ keep \in MeanAbsCandidates
        /\ \A e \in MeanAbsCandidates : TagRank(keep) <= TagRank(e)

(* Every electrode's mean amplitude is a whole number.                     *)
WholeMeans == \A e \in TagsOf(df) : AbsSum(e) % NumRows(e) = 0

(* C5 amended: with the absolute value of each electrode's mean (signed)   *)
(* amplitude, the result is the alphabetically first electrode that the    *)
(* double comparison finds above 0.8 times the largest value: its value is *)
(* not zero and not less than 0.8 times that of any electrode, no earlier  *)
(* electrode is strictly above 0.8 times every value, and when the means   *)
(* are whole numbers the result is strictly above; it is an electrode of   *)
(* the input whenever a tag is returned, and no tag is returned            *)
(* (IndexError) exactly when every electrode's mean amplitude is zero.     *)
C5_AbsoluteOfMean ==
    pc = "chosen" =>
        /\ keep = IndexError <=> \A e \in TagsOf(df) : AbsSum(e) = 0
        /\ keep # IndexError =>
              /\ keep \in TagsOf(df)
              /\ AbsSum(keep) > 0
              /\ \A m \in TagsOf(df) :
                    5 * AbsSum(keep) * NumRows(m) >= 4 * AbsSum(m) * NumRows(keep)
              /\ WholeMeans => \A m \in TagsOf(df) :
                    5 * AbsSum(keep) * NumRows(m) > 4 * AbsSum(m) * NumRows(keep)
              /\ \A e \in TagsOf(df) : TagRank(e) < TagRank(keep) =>
                    \E m \in TagsOf(df) :
                        5 * AbsSum(e) * NumRows(m) <= 4 * AbsSum(m) * NumRows(e)

(* a4 is kept although b5 has the larger amplitude and the mean of a4 is   *)
(* exactly 0.8 times that of b5: the doubles round apart.                  *)
C5_Witness ==
    /\ pc = "chosen"
    /\ keep = "a4"
    /\ TagsOf(df) = {"a4", "b5"}
    /\ AbsSum("a4") > 0
    /\ 5 * AbsSum("a4") * NumRows("b5") = 4 * AbsSum("b5") * NumRows("a4")

----------------------------------------------------------------------------
(* Spike tables for the tagging pass.  A recording of k periods repeats a  *)
(* pattern of slots: in period p (from 0) the slot fires at p * Period +   *)
(* off, shifted by jit in the odd periods, with amplitude amp, negated in  *)
(* the odd periods when flip is set.  The table lists the spikes slot by   *)
(* slot, as detect_spikes concatenates them electrode by electrode.        *)

Reps == {1, 15, 16, 29, MaxReps}

(* In ticks 0.0012 s is between 19 and 20 and 0.3 ms just under 5: the    *)
(* offsets put the second slot 19, 11, 19 and 20 ticks from the first, and *)
(* a shift of 9 ticks in every other period keeps the deviation under      *)
(* 0.3 ms where one of 10 ticks does not.                                  *)
Slot1 == [electrode : {"b5"}, off : {19}, jit : {0}, amp : {-5, 0},
          flip : {FALSE}]

Slot2 == [electrode : {"a4", "b5", "analog1"}, off : {0, 8, 38, 39},
          jit : {0, 9, 10}, amp : {-4}, flip : BOOLEAN]
         \cup [electrode : {"a4", "b5", "analog1"}, off : {0, 8, 38, 39},
               jit : {0, 9, 10}, amp : {0}, flip : {FALSE}]

Slot3 == [electrode : {"e8"}, off : {22, 60}, jit : {0}, amp : {-5},
          flip : {FALSE}]

TagPatterns ==
    {<<s1, s2>> : s1 \in Slot1, s2 \in Slot2}
    \cup {<<s3, s1, s2>> : s3 \in Slot3, s1 \in Slot1, s2 \in Slot2}

PatternTable(pattern, k) ==
    AsSeq([r \in 1..(Len(pattern) * k) |->
        LET slot == pattern[((r - 1) \div k) + 1]
            p == (r - 1) % k
            odd == p % 2 = 1
        IN  [electrode |-> slot.electrode,
             time |-> p * Period + slot.off + (IF odd THEN slot.jit ELSE 0),
             amplitude |-> IF odd /\ slot.flip THEN -slot.amp ELSE slot.amp,
             conductance |-> FALSE]])

TagTables == {PatternTable(pattern, k) : pattern \in TagPatterns, k \in Reps}

----------------------------------------------------------------------------
(* Specification of the tagging pass: tag_conductance_spikes on a table,   *)
(* and again on the table it returned.                                     *)

InitTag ==
    /\ df \in TagTables
    /\ pc = "table"
    /\ conductance_locs = <<>>
    /\ likely = {}
    /\ pending = {}
    /\ spike_order = <<>>
    /\ spike_dict = NoDict
    /\ last_call = NoCall
    /\ min_sep = TagMinSep
    /\ events = <<>>
    /\ keep = ""

(* df = tag_conductance_spikes(df): the table gets its flags, unless an    *)
(* exception leaves the loop, and then the table is as it was.             *)
Tag ==
    /\ pc \in {"table", "tagged"}
    /\ \E run \in tag_loop(df) :
           /\ conductance_locs' = run.locs
           /\ likely' = run.likely
           /\ IF run.raised
              THEN /\ pc' = "raised"
                   /\ df' = df
              ELSE /\ pc' = (IF pc = "table" THEN "tagged" ELSE "retagged")
                   /\ df' = write_flags(df, run.locs)
    /\ UNCHANGED <<spike_order, spike_dict, min_sep, events, keep, pending,
                   last_call>>

NextTag == Tag

SpecTag == InitTag /\ [][NextTag]_vars

(* The unordered pairs of electrode tags of the table that are not analog  *)
(* tags, each as <<e1, e2>> with e1 before e2.                             *)
ElectrodePairs ==
    {p \in TagsOf(df) \X TagsOf(df) :
        /\ TagRank(p[1]) < TagRank(p[2])
        /\ ~startswith_analog(p[1])
        /\ ~startswith_analog(p[2])}

(* The rows of the cofiring events of a pair, two per event: the outcomes  *)
(* of their detection.                                                     *)
CofiringOf(p) == pair_cofiring(df, init_spike_dict(df), p[1], p[2])

Flagged == {i \in 1..Len(df) : df[i].conductance}

(* C1: a pair is classified as a conductance artifact exactly when it has  *)
(* more than 30 cofiring events and the standard deviation of its time     *)
(* differences below the threshold is under 0.3 ms.                        *)
C1_MoreThan30Events ==
    pc = "tagged" =>
        \A p \in ElectrodePairs :
            p \in likely <=>
                \A cof \in CofiringOf(p) :
                    /\ Len(cof) \div 2 > MinCofiring
                    /\ low_jitter(df, cof)

(* The rows of the events of a pair that classifies as a conductance pair  *)
(* whose electrode is not the one kept for the pair; none for a pair that  *)
(* does not classify.                                                      *)
NonKeptOf(p) ==
    UNION {IF is_conductance(df, cof)
           THEN {i \in Range(cof) :
                    df[i].electrode # choose_keep_electrode(df, cof)}
           ELSE {} : cof \in CofiringOf(p)}

(* C4: after the pass a row is flagged exactly when it is a row of a       *)
(* cofiring event of some pair of non-analog electrodes that classifies as *)
(* a conductance pair, and is not of the electrode kept for that pair.     *)
C4_FlagsExactlyNonKept ==
    pc = "tagged" => Flagged = UNION {NonKeptOf(p) : p \in ElectrodePairs}

(* Two pairs that share an electrode are classified, and rows of three     *)
(* electrodes are flagged while other rows of the same pairs are kept.     *)
C4_Witness ==
    /\ pc = "tagged"
    /\ Cardinality(likely) >= 2
    /\ \E i, j \in Flagged : df[i].electrode # df[j].electrode
    /\ \E p \in likely : \E cof \in CofiringOf(p) :
           \E i \in Range(cof) : ~df[i].conductance

(* C6: the pass never ends with an exception: whatever fails in the        *)
(* analysis of a pair only skips that pair.                                *)
C6_NoPairAbortsThePass ==
    pc # "raised"

(* A second run on a tagged table returns the same table.                  *)
SecondRunSameFlags ==
    pc = "tagged" => pc' = "retagged" /\ df' = df

(* C7: tagging an already tagged table yields the same flag on every row.  *)
C7_Idempotent == [][SecondRunSameFlags]_vars

(* The table was tagged twice, with flagged and unflagged rows.            *)
C7_Witness ==
    /\ pc = "retagged"
    /\ Flagged # {}
    /\ \E p \in likely : \E cof \in CofiringOf(p) :
           \E i \in Range(cof) : ~df[i].conductance

----------------------------------------------------------------------------
(* Specification of the tagging pass with its pairs analysed in any order, *)
(* either electrode first, and one final write of the flags.               *)

ParReps == {15, 16}

ParTables ==
    {PatternTable(pattern, k) :
        pattern \in {q \in TagPatterns : Len(q) = 3}, k \in ParReps}

InitPar ==
    /\ df \in ParTables
    /\ pc = "table"
    /\ conductance_locs = <<>>
    /\ likely = {}
    /\ pending = {}
    /\ spike_order = <<>>
    /\ spike_dict = NoDict
    /\ last_call = NoCall
    /\ min_sep = TagMinSep
    /\ events = <<>>
    /\ keep = ""

(* spikes = MEASpikeDict(df) and the pairs of combinations(tags, 2)        *)
StartPairs ==
    /\ pc = "table"
    /\ spike_order' = init_spike_order(df)
    /\ spike_dict' = init_spike_dict(df)
    /\ pending' = Range(combinations2(nonanalog_tags(init_spike_order(df))))
    /\ pc' = "pairs"
    /\ UNCHANGED <<df, min_sep, events, keep, conductance_locs, last_call,
                   likely>>

(* The loop body for one of the pairs left, with its electrodes in either  *)
(* order.                                                                  *)
AnalysePair(p, swap) ==
    /\ pc = "pairs"
    /\ p \in pending
    /\ \E run \in pair_step(df, spike_dict,
                            [locs |-> conductance_locs, likely |-> likely,
                             raised |-> FALSE],
                            IF swap THEN p[2] ELSE p[1],
                            IF swap THEN p[1] ELSE p[2]) :
           /\ conductance_locs' = run.locs
           /\ likely' = run.likely
           /\ pc' = IF run.raised THEN "raised" ELSE "pairs"
    /\ pending' = pending \ {p}
    /\ UNCHANGED <<df, spike_order, spike_dict, min_sep, events, keep,
                   last_call>>

(* The final write of the flags.                                           *)
WriteFlags ==
    /\ pc = "pairs"
    /\ pending = {}
    /\ df' = write_flags(df, conductance_locs)
    /\ pc' = "merged"
    /\ UNCHANGED <<spike_order, spike_dict, min_sep, events, keep,
                   conductance_locs, pending, last_call, likely>>

NextPar ==
    \/ StartPairs
    \/ \E p \in pending, swap \in BOOLEAN : AnalysePair(p, swap)
    \/ WriteFlags

SpecPar == InitPar /\ [][NextPar]_vars

(* C10: whatever the order of the pairs and of the electrodes in a pair,   *)
(* the flags after the final write are those of the pass in the order of   *)
(* combinations, and an order ends with an exception only if that pass     *)
(* does.                                                                   *)
C10_OrderIndependent ==
    \A run \in tag_loop(df) :
        /\ pc = "merged" => /\ ~run.raised
                            /\ df = write_flags(df, run.locs)
        /\ pc = "raised" => run.raised

(* Three classified pairs were analysed, an electrode was recorded by two  *)
(* of them, and the flags are written.                                     *)
C10_Witness ==
    /\ pc = "merged"
    /\ Cardinality(likely) = 3
    /\ Len(conductance_locs) > Cardinality(Range(conductance_locs))
    /\ Flagged # {}

====
